---- MODULE Spec2Model ----
(***************************************************************************)
(* fetch-npm: fetchAndExtractPackage, its locator strategies and           *)
(* retryAsync, as a state machine.                                         *)
(*                                                                         *)
(* The latest revision of the module (src/unnamed/part_001) is the one     *)
(* modelled for the orchestrator and the strategies; retryAsync is the     *)
(* repository's own definition (src/src/index.ts).                         *)
(*                                                                         *)
(* Each await of the code is one step.  The reactions of a settled promise *)
(* (Promise.any settling, retryAsync's catch, the continuation of the      *)
(* awaiting function up to its next await) run as microtasks and are part  *)
(* of the step that settles the promise.                                   *)
(***************************************************************************)
EXTENDS Integers, Sequences, FiniteSets, TLC

\* ------------------------------------------------------------------ bounds
MaxRetry == 1
NumCalls == 2
MaxN == 3
MaxK == 4
MaxSteps == 12
MaxExports == 2

\* options.retry defaults to 1
DefaultRetry == 1

\* ------------------------------------------------------------- vocabulary
Calls == 1..NumCalls

\* the three locators, in the order of the array given to Promise.any
StrategyOrder == <<"http", "npm", "pack">>
Strategies == {StrategyOrder[i] : i \in 1..Len(StrategyOrder)}

\* the registries raced by downloadWithHttp
Sources == {"registry", "yarn", "tencent"}
NoUrl == "none"

\* package names, as character sequences
Names == { <<"@", "s", "/", "p">>, <<"q">> }
NoName == <<>>

\* name.split('/').join('-')
TempFile(name) == [i \in DOMAIN name |-> IF name[i] = "/" THEN "-" ELSE name[i]]

\* path.join(url, '..', tempFile): the directory is identified by tempFile
TempDirs == {TempFile(n) : n \in Names}

\* a path inside a working directory: <<tempDir, sub-directory>>; '' is <<>>
EmptyPath == <<>>
TgzPath(d, s) == <<d, s>>

\* path.join(tempDir, 'http' | 'npm' | 'pack'): the sub-directory a strategy
\* is given as its tempDir
MutSubPathShared(s) == "http"
SubPath(s) == s

\* the awaited steps of the try block, in program order
StepOrder ==
  <<"requestAuth", "writeManifest", "mkdir", "race", "extract", "readManifest",
    "readEntry", "rm">>
Successor(order, p) == order[(CHOOSE i \in 1..Len(order) : order[i] = p) + 1]
\* the step the try block awaits after step p has succeeded
MutNextStepReadsFirst(p) ==
  Successor(<<"requestAuth", "writeManifest", "mkdir", "race", "readManifest",
              "extract", "readEntry", "rm">>, p)
NextStep(p) == Successor(StepOrder, p)

\* if (!existsSync(distPackageJsonPath)) await fsp.writeFile(...): the
\* package.json next to the module after the step, from the one before it
MutEnsureManifestAlways(p) == "placeholder"
EnsureManifest(p) == IF p = "absent" THEN "placeholder" ELSE p

\* errors: a kind, and for an AggregateError the errors it aggregates
Err(kind) == [kind |-> kind, errors |-> <<>>]
AggregateError(errors) == [kind |-> "AggregateError", errors |-> errors]
NoError == Err("none")

EmptyDir ==
  [exists |-> FALSE, sub |-> {}, tgz |-> [s \in Strategies |-> "absent"],
   package |-> FALSE]

\* ------------------------------------------------------------------ state
VARIABLES
  pc,          \* position of each fetchAndExtractPackage call
  name,        \* options.name of the call
  retry,       \* options.retry after defaulting
  retries,     \* the retries parameter of the innermost retryAsync frame
  caught,      \* the errors caught by the suspended outer retryAsync frames
  phase,       \* position of each locator strategy of the call
  spath,       \* the value a strategy fulfilled with
  serr,        \* the reason a strategy rejected with
  invoked,     \* how often a strategy was called in the current race attempt
  srcFailed,   \* downloadWithHttp: the registries that have rejected
  srcHung,     \* downloadWithHttp: the registries whose promise cannot settle
  tarballUrl,  \* downloadWithHttp: the registry whose URL is downloaded
  tgzPath,     \* the value of the race
  stepError,   \* the error caught by the catch block
  mainFileContent, \* whether the entry file has been read
  cleanup,     \* result of the catch block's fsp.rm
  outcome,     \* what the caller received
  fs,          \* the working directories on disk
  pkgJson,     \* the package.json next to the module
  VITEST,      \* process.env.VITEST
  rN, rK,      \* retryAsync alone: retries argument, failures of fn before success
  rState, rRetries, rCaught, rCalls, rResult,
  rErrors,     \* the errors fn has rejected with, in order
  packageJson, \* entry resolution alone: the parsed manifest of the package
  dist,        \* entry resolution alone: options.dist
  mainFile,    \* entry resolution alone: the resolved entry, once computed
  resolveError, \* entry resolution alone: the error it threw
  steps        \* the steps taken, where a specification bounds them

mainVars ==
  <<pc, name, retry, retries, caught, phase, spath, serr, invoked, srcFailed,
    srcHung, tarballUrl, tgzPath, stepError, mainFileContent, cleanup, outcome, fs, pkgJson, VITEST>>
retryVars == <<rN, rK, rState, rRetries, rCaught, rCalls, rResult, rErrors>>
resolveVars == <<packageJson, dist, mainFile, resolveError>>
vars == <<mainVars, retryVars, resolveVars, steps>>

\* --------------------------------------------------------------- retryAsync
\* `if (retries > 0)`
MutShouldRetryOffByOne(r) == r >= 0
MutShouldRetryTooFew(r) == r > 1
ShouldRetry(r) == r > 0

\* Every frame that retried is suspended in `return retryAsync(fn, retries - 1)`,
\* so the rejection that leaves the outermost call is the one thrown by the
\* innermost frame: the error of its own invocation of fn.
MutThrownFirst(errors) == errors[1]
ThrownError(errors) == errors[Len(errors)]

\* the catch clause of one frame, given the errors caught by the outer frames
retryAsync(r, outer, error) ==
  IF ShouldRetry(r)
    THEN [again |-> TRUE, retries |-> r - 1, caught |-> Append(outer, error),
          error |-> error]
    ELSE [again |-> FALSE, retries |-> r, caught |-> <<>>,
          error |-> ThrownError(Append(outer, error))]

\* fn of the retry run: fails its first rK invocations, each time with a new error
ErrKinds == {"ENET", "ETIME"}
OpError(i, kind) == <<i, kind>>
OpValue == <<0, "value">>

RetryInitVars ==
  /\ rN \in 0..MaxN
  /\ rK \in 0..MaxK
  /\ rState = "calling"
  /\ rRetries = rN
  /\ rCaught = <<>>
  /\ rCalls = 0
  /\ rResult = <<0, "none">>
  /\ rErrors = <<>>

RetryIdle ==
  /\ rN = 0 /\ rK = 0 /\ rState = "idle" /\ rRetries = 0
  /\ rCaught = <<>> /\ rCalls = 0 /\ rResult = <<0, "none">> /\ rErrors = <<>>

\* `return await fn()` with fn fulfilling
FnFulfils ==
  /\ rState = "calling"
  /\ rCalls + 1 > rK
  /\ rCalls' = rCalls + 1
  /\ rState' = "returned"
  /\ rResult' = OpValue
  /\ rCaught' = <<>>
  /\ UNCHANGED <<rN, rK, rRetries, rErrors, mainVars, resolveVars>>

\* fn rejects and the frame calls retryAsync(fn, retries - 1)
FnRejectsRetry ==
  /\ rState = "calling"
  /\ rCalls + 1 <= rK
  /\ \E kind \in ErrKinds :
       LET r == retryAsync(rRetries, rCaught, OpError(rCalls + 1, kind))
       IN /\ r.again
          /\ rRetries' = r.retries
          /\ rCaught' = r.caught
          /\ rErrors' = Append(rErrors, OpError(rCalls + 1, kind))
  /\ rCalls' = rCalls + 1
  /\ UNCHANGED <<rN, rK, rState, rResult, mainVars, resolveVars>>

\* fn rejects and the frame throws
FnRejectsThrow ==
  /\ rState = "calling"
  /\ rCalls + 1 <= rK
  /\ \E kind \in ErrKinds :
       LET r == retryAsync(rRetries, rCaught, OpError(rCalls + 1, kind))
       IN /\ ~r.again
          /\ rResult' = r.error
          /\ rCaught' = r.caught
          /\ rErrors' = Append(rErrors, OpError(rCalls + 1, kind))
  /\ rCalls' = rCalls + 1
  /\ rState' = "thrown"
  /\ UNCHANGED <<rN, rK, rRetries, mainVars, resolveVars>>

RetryNext ==
  \/ FnFulfils /\ UNCHANGED steps
  \/ FnRejectsRetry /\ UNCHANGED steps
  \/ FnRejectsThrow /\ UNCHANGED steps

\* ------------------------------------------------------------ Promise.any
\* status of a strategy's promise, from its position
Status(ph) == IF ph = "ok" THEN "fulfilled" ELSE IF ph = "failed" THEN "rejected" ELSE "pending"

\* Promise.any over the promises of the strategies: fulfilled with the first
\* fulfilment, rejected once every promise has rejected
MutPromiseAllSettled(st) ==
  IF \A s \in DOMAIN st : st[s] = "rejected" THEN "rejected"
  ELSE IF \A s \in DOMAIN st : st[s] # "pending" THEN "fulfilled"
  ELSE "pending"
MutPromiseRace(st) ==
  IF \E s \in DOMAIN st : st[s] = "rejected" THEN "rejected"
  ELSE IF \E s \in DOMAIN st : st[s] = "fulfilled" THEN "fulfilled"
  ELSE "pending"
PromiseAny(st) ==
  IF \E s \in DOMAIN st : st[s] = "fulfilled" THEN "fulfilled"
  ELSE IF \A s \in DOMAIN st : st[s] = "rejected" THEN "rejected"
  ELSE "pending"

\* -------------------------------------------------------- entry resolution
\* Strings are character sequences.  A value read from the manifest or the
\* options is undefined, a string, or an object (JSON allows any value where
\* a string is expected).
None == [some |-> FALSE, str |-> FALSE, s |-> <<>>]
Some(s) == [some |-> TRUE, str |-> TRUE, s |-> s]
Object == [some |-> TRUE, str |-> FALSE, s |-> <<>>]
IndexJs == <<"i", "n", "d", "e", "x", ".", "j", "s">>

\* a value used as a condition: undefined and '' are falsy
Truthy(o) == o.some /\ (o.str => o.s # <<>>)

\* String.prototype.includes
Includes(s, t) == \E i \in 0..(Len(s) - Len(t)) : SubSeq(s, i + 1, i + Len(t)) = t

\* `v?.includes(tag)`: undefined for an undefined v, a TypeError for a v
\* without an includes method
OptionalIncludes(v, tag) ==
  IF ~v.some THEN "undefined"
  ELSE IF ~v.str THEN "TypeError"
  ELSE IF Includes(v.s, tag) THEN "true"
  ELSE "false"

\* the value of an exports key: null, or an object with optional import and
\* require; `packageJson.exports[key] || {}`
Null == [null |-> TRUE, import |-> None, require |-> None]
Entry(i, r) == [null |-> FALSE, import |-> i, require |-> r]
OrEmpty(e) == IF e.null THEN Entry(None, None) ELSE e

\* the keys of exports that are array indices, with their numeric value
ArrayIndex(k) == IF k = "0" THEN 0 ELSE IF k = "1" THEN 1 ELSE -1

\* `for (const key in packageJson.exports)`: the own keys of an object are
\* enumerated array indices first, in ascending numeric order, then the other
\* keys in the order of their creation (for JSON.parse, the order of the text).
\* list is the sequence of <<key, value>> in the order of the text.
ForIn(list) ==
  LET n == Len(list)
      ix(i) == ArrayIndex(list[i][1])
      Before(i, j) ==
        IF ix(i) >= 0 /\ ix(j) >= 0 THEN ix(i) < ix(j)
        ELSE IF ix(i) >= 0 THEN TRUE
        ELSE IF ix(j) >= 0 THEN FALSE
        ELSE i < j
      pos(i) == 1 + Cardinality({j \in 1..n : j # i /\ Before(j, i)})
  IN [k \in 1..n |-> list[CHOOSE i \in 1..n : pos(i) = k]]

\* what the loop or the block ends with: mainFile, or a thrown error
Value(s) == [threw |-> FALSE, s |-> s]
Thrown == [threw |-> TRUE, s |-> <<>>]

\* the body of the loop: `if (importUri?.includes(dist)) { mainFile =
\* importUri; break } else if (requireUri?.includes(dist)) { mainFile =
\* requireUri; break }`: "break" with the new mainFile, "throw", or "next"
MutEntryMatchAnyImport(e, tag) ==
  LET r == OptionalIncludes(e.require, tag)
  IN IF e.import.some /\ ~e.import.str THEN [do |-> "throw", s |-> <<>>]
     ELSE IF e.import.some THEN [do |-> "break", s |-> e.import.s]
     ELSE IF r = "TypeError" THEN [do |-> "throw", s |-> <<>>]
     ELSE IF r = "true" THEN [do |-> "break", s |-> e.require.s]
     ELSE [do |-> "next", s |-> <<>>]
MutEntryMatchRequireFirst(e, tag) ==
  LET r == OptionalIncludes(e.require, tag)
      i == OptionalIncludes(e.import, tag)
  IN IF r = "TypeError" THEN [do |-> "throw", s |-> <<>>]
     ELSE IF r = "true" THEN [do |-> "break", s |-> e.require.s]
     ELSE IF i = "TypeError" THEN [do |-> "throw", s |-> <<>>]
     ELSE IF i = "true" THEN [do |-> "break", s |-> e.import.s]
     ELSE [do |-> "next", s |-> <<>>]
EntryMatch(e, tag) ==
  LET i == OptionalIncludes(e.import, tag)
      r == OptionalIncludes(e.require, tag)
  IN IF i = "TypeError" THEN [do |-> "throw", s |-> <<>>]
     ELSE IF i = "true" THEN [do |-> "break", s |-> e.import.s]
     ELSE IF r = "TypeError" THEN [do |-> "throw", s |-> <<>>]
     ELSE IF r = "true" THEN [do |-> "break", s |-> e.require.s]
     ELSE [do |-> "next", s |-> <<>>]

\* the loop over the enumerated entries, from the i-th on
MutScanImportsFirst(entries, i, tag, entry) ==
  LET imp == {k \in i..Len(entries) :
                OptionalIncludes(OrEmpty(entries[k][2]).import, tag) = "true"}
      req == {k \in i..Len(entries) :
                OptionalIncludes(OrEmpty(entries[k][2]).require, tag) = "true"}
      First(S) == CHOOSE k \in S : \A j \in S : k <= j
  IN IF imp # {} THEN Value(entries[First(imp)][2].import.s)
     ELSE IF req # {} THEN Value(entries[First(req)][2].require.s)
     ELSE Value(entry)
RECURSIVE Scan(_, _, _, _)
Scan(entries, i, tag, entry) ==
  IF i > Len(entries) THEN Value(entry)
  ELSE LET m == EntryMatch(OrEmpty(entries[i][2]), tag)
       IN IF m.do = "throw" THEN Thrown
          ELSE IF m.do = "break" THEN Value(m.s)
          ELSE Scan(entries, i + 1, tag, entry)

\* `packageJson.main || 'index.js'`
MutDefaultEntryNullish(pj) == IF pj.main.some THEN pj.main.s ELSE IndexJs
DefaultEntry(pj) == IF Truthy(pj.main) THEN pj.main.s ELSE IndexJs

\* `if (dist && !mainFile.includes(dist) && packageJson.exports)`
MutConsultsExportsAlways(entry, d, pj) == Truthy(d) /\ pj.exports.some
ConsultsExports(entry, d, pj) ==
  Truthy(d) /\ ~Includes(entry, d.s) /\ pj.exports.some

\* lines 69-82: mainFile after the block, or the error thrown in it
ResolveEntry(pj, d) ==
  LET entry == DefaultEntry(pj)
  IN IF ConsultsExports(entry, d, pj)
       THEN Scan(ForIn(pj.exports.list), 1, d.s, entry)
       ELSE Value(entry)

\* the manifests and tags entry resolution is run on
ExportKeys == {"1", ".", "./x"}
MainValues == {None, Some(<<>>), Some(<<"m">>), Some(<<"m", "t">>)}
DistValues == {None, Some(<<>>), Some(<<"t">>), Some(<<"x">>)}
ImportValues == {None, Some(<<"a">>), Some(<<"t", "a">>), Object}
RequireValues == {None, Some(<<"b", "t">>), Object}
EntryValues == {Null} \cup {Entry(i, r) : i \in ImportValues, r \in RequireValues}
ExportLists ==
  UNION {{l \in [1..n -> ExportKeys \X EntryValues] :
            \A i, j \in 1..n : i # j => l[i][1] # l[j][1]} : n \in 0..MaxExports}
NoExports == [some |-> FALSE, list |-> <<>>]
Manifests ==
  {[main |-> m, exports |-> e] :
     m \in MainValues,
     e \in {NoExports} \cup {[some |-> TRUE, list |-> l] : l \in ExportLists}}

ResolveIdle ==
  /\ packageJson = [main |-> None, exports |-> NoExports]
  /\ dist = None
  /\ mainFile = None
  /\ resolveError = "none"

ResolveInitVars ==
  /\ packageJson \in Manifests
  /\ dist \in DistValues
  /\ mainFile = None
  /\ resolveError = "none"

\* lines 69-82 run on the parsed manifest
Resolve ==
  /\ ~mainFile.some /\ resolveError = "none"
  /\ LET r == ResolveEntry(packageJson, dist)
     IN IF r.threw
          THEN resolveError' = "TypeError" /\ UNCHANGED mainFile
          ELSE mainFile' = Some(r.s) /\ UNCHANGED resolveError
  /\ UNCHANGED <<packageJson, dist, mainVars, retryVars, steps>>

\* ------------------------------------------------------------------- Init
tempDir(c) == TempFile(name[c])

MainIdle ==
  /\ pc = [c \in Calls |-> "idle"]
  /\ name = [c \in Calls |-> NoName]
  /\ retry = [c \in Calls |-> 0]
  /\ retries = [c \in Calls |-> 0]
  /\ caught = [c \in Calls |-> <<>>]
  /\ phase = [c \in Calls |-> [s \in Strategies |-> "idle"]]
  /\ spath = [c \in Calls |-> [s \in Strategies |-> EmptyPath]]
  /\ serr = [c \in Calls |-> [s \in Strategies |-> "none"]]
  /\ invoked = [c \in Calls |-> [s \in Strategies |-> 0]]
  /\ srcFailed = [c \in Calls |-> {}]
  /\ srcHung = [c \in Calls |-> {}]
  /\ tarballUrl = [c \in Calls |-> NoUrl]
  /\ tgzPath = [c \in Calls |-> EmptyPath]
  /\ stepError = [c \in Calls |-> NoError]
  /\ mainFileContent = [c \in Calls |-> FALSE]
  /\ cleanup = [c \in Calls |-> "none"]
  /\ outcome = [c \in Calls |-> [kind |-> "pending", error |-> NoError]]
  /\ fs = [d \in TempDirs |-> EmptyDir]

InitVars ==
  /\ MainIdle
  /\ pkgJson \in {"absent", "user"}
  /\ VITEST \in BOOLEAN
  /\ RetryIdle
  /\ ResolveIdle

Init == InitVars /\ steps = -1

\* A specification that starts with steps >= 0 follows the calls for MaxSteps
\* steps; one that starts with steps < 0 follows them to the end.
Budget ==
  IF steps < 0 THEN UNCHANGED steps ELSE steps < MaxSteps /\ steps' = steps + 1

\* ----------------------------------------------------- fetchAndExtractPackage
\* the catch block is entered with `error`
Throw(c, error) ==
  /\ pc' = [pc EXCEPT ![c] = "catch"]
  /\ stepError' = [stepError EXCEPT ![c] = error]

\* the function is called: options are destructured, nothing is awaited yet
Call(c) ==
  /\ pc[c] = "idle"
  /\ \E n \in Names, r \in {-1} \cup (0..MaxRetry) :
       /\ name' = [name EXCEPT ![c] = n]
       /\ retry' = [retry EXCEPT ![c] = IF r = -1 THEN DefaultRetry ELSE r]
  /\ pc' = [pc EXCEPT ![c] = "requestAuth"]
  /\ UNCHANGED <<retries, caught, phase, spath, serr, invoked, srcFailed, srcHung, tarballUrl, tgzPath,
                 stepError, mainFileContent, cleanup, outcome, fs, pkgJson, VITEST, retryVars, resolveVars>>
  /\ Budget

\* await requestAuth(...): fsp.chmod
RequestAuth(c) ==
  /\ pc[c] = "requestAuth"
  /\ \/ /\ pc' = [pc EXCEPT ![c] = NextStep("requestAuth")]
        /\ UNCHANGED stepError
     \/ Throw(c, Err("chmod"))
  /\ UNCHANGED <<name, retry, retries, caught, phase, spath, serr, invoked, srcFailed, srcHung, tarballUrl,
                 tgzPath, mainFileContent, cleanup, outcome, fs, pkgJson, VITEST, retryVars, resolveVars>>
  /\ Budget

\* if (!existsSync(distPackageJsonPath)) await fsp.writeFile(...)
WriteManifest(c) ==
  /\ pc[c] = "writeManifest"
  /\ \/ /\ pkgJson' = EnsureManifest(pkgJson)
        /\ pc' = [pc EXCEPT ![c] = NextStep("writeManifest")]
        /\ UNCHANGED stepError
     \/ /\ pkgJson = "absent"
        /\ Throw(c, Err("writeFile"))
        /\ UNCHANGED pkgJson
  /\ UNCHANGED <<name, retry, retries, caught, phase, spath, serr, invoked, srcFailed, srcHung, tarballUrl,
                 tgzPath, mainFileContent, cleanup, outcome, fs, VITEST, retryVars, resolveVars>>
  /\ Budget

\* one invocation of the function given to retryAsync: the three strategies are
\* called, each runs up to its first await (fsp.mkdir)
MutStartRaceOneStrategy(c) ==
  /\ phase' = [phase EXCEPT ![c]["http"] = "mkdir"]
  /\ spath' = [spath EXCEPT ![c]["http"] = EmptyPath]
  /\ serr' = [serr EXCEPT ![c]["http"] = "none"]
  /\ invoked' = [invoked EXCEPT ![c]["http"] = @ + 1]
  /\ srcFailed' = [srcFailed EXCEPT ![c] = {}]
  /\ srcHung' = [srcHung EXCEPT ![c] = {}]
  /\ tarballUrl' = [tarballUrl EXCEPT ![c] = NoUrl]
StartRace(c) ==
  /\ phase' = [phase EXCEPT ![c] = [s \in Strategies |-> "mkdir"]]
  /\ spath' = [spath EXCEPT ![c] = [s \in Strategies |-> EmptyPath]]
  /\ serr' = [serr EXCEPT ![c] = [s \in Strategies |-> "none"]]
  /\ invoked' = [invoked EXCEPT ![c] = [s \in Strategies |-> 1]]
  /\ srcFailed' = [srcFailed EXCEPT ![c] = {}]
  /\ srcHung' = [srcHung EXCEPT ![c] = {}]
  /\ tarballUrl' = [tarballUrl EXCEPT ![c] = NoUrl]

\* await fsp.mkdir(tempDir, { recursive: true }), then retryAsync(..., retry)
Mkdir(c) ==
  /\ pc[c] = "mkdir"
  /\ \/ /\ fs' = [fs EXCEPT ![tempDir(c)].exists = TRUE]
        /\ pc' = [pc EXCEPT ![c] = NextStep("mkdir")]
        /\ retries' = [retries EXCEPT ![c] = retry[c]]
        /\ caught' = [caught EXCEPT ![c] = <<>>]
        /\ StartRace(c)
        /\ UNCHANGED stepError
     \/ /\ Throw(c, Err("mkdir"))
        /\ UNCHANGED <<fs, retries, caught, phase, spath, serr, invoked, srcFailed, srcHung, tarballUrl>>
  /\ UNCHANGED <<name, retry, tgzPath, mainFileContent, cleanup, outcome, pkgJson, VITEST,
                 retryVars, resolveVars>>
  /\ Budget

\* --------------------------------------------------------------- the race
\* A strategy's promise settles (ph is "ok" with value p, or "failed" with
\* reason e).  While the call awaits the race, Promise.any may settle with it:
\* fulfilled, the call goes on to tar.x; rejected, retryAsync's catch either
\* invokes the race again or throws into the catch block.  After the race has
\* settled, the settlement of a strategy has no reaction.
\* the call is suspended in `await retryAsync(...)`
MutAwaitingAnyTime(c) == pc[c] \notin {"idle", "done"}
Awaiting(c) == pc[c] = "race"

Settle(c, s, ph, p, e) ==
  LET nphase == [phase[c] EXCEPT ![s] = ph]
      npath == [spath[c] EXCEPT ![s] = p]
      nerr == [serr[c] EXCEPT ![s] = e]
      race == PromiseAny([t \in Strategies |-> Status(nphase[t])])
      errors == [i \in 1..Len(StrategyOrder) |-> nerr[StrategyOrder[i]]]
      r == retryAsync(retries[c], caught[c], AggregateError(errors))
      keep == /\ phase' = [phase EXCEPT ![c] = nphase]
              /\ spath' = [spath EXCEPT ![c] = npath]
              /\ serr' = [serr EXCEPT ![c] = nerr]
              /\ UNCHANGED invoked
              /\ srcFailed' = [srcFailed EXCEPT ![c] = IF s = "http" THEN {} ELSE @]
              /\ srcHung' = [srcHung EXCEPT ![c] = IF s = "http" THEN {} ELSE @]
              /\ tarballUrl' = [tarballUrl EXCEPT ![c] = IF s = "http" THEN NoUrl ELSE @]
  IN IF Awaiting(c) /\ race = "fulfilled"
       THEN /\ keep
            /\ tgzPath' = [tgzPath EXCEPT
                 ![c] = npath[CHOOSE t \in Strategies : nphase[t] = "ok"]]
            /\ pc' = [pc EXCEPT ![c] = NextStep("race")]
            /\ caught' = [caught EXCEPT ![c] = <<>>]
            /\ UNCHANGED <<retries, stepError>>
     ELSE IF Awaiting(c) /\ race = "rejected"
       THEN IF r.again
              THEN /\ StartRace(c)
                   /\ retries' = [retries EXCEPT ![c] = r.retries]
                   /\ caught' = [caught EXCEPT ![c] = r.caught]
                   /\ UNCHANGED <<pc, tgzPath, stepError>>
              ELSE /\ keep
                   /\ Throw(c, r.error)
                   /\ caught' = [caught EXCEPT ![c] = r.caught]
                   /\ UNCHANGED <<retries, tgzPath>>
     ELSE /\ keep
          /\ UNCHANGED <<pc, tgzPath, stepError, retries, caught>>

\* the variables neither a strategy nor Settle writes
StrategyFrame ==
  /\ UNCHANGED <<name, retry, mainFileContent, cleanup, outcome, pkgJson, VITEST, retryVars, resolveVars>>
  /\ Budget
\* a strategy moves on without settling
Advance(c, s, ph) ==
  /\ phase' = [phase EXCEPT ![c][s] = ph]
  /\ UNCHANGED <<pc, tgzPath, stepError, retries, caught, spath, serr, invoked>>

\* createWriteStream(tgzPath): the file is created or truncated; with the
\* directory missing the stream emits 'error' and the promise rejects
CreateWriteStream(c, s) ==
  IF SubPath(s) \in fs[tempDir(c)].sub
    THEN /\ fs' = [fs EXCEPT ![tempDir(c)].tgz[SubPath(s)] = "partial"]
         /\ Advance(c, s, "download")
    ELSE /\ Settle(c, s, "failed", EmptyPath, "Download")
         /\ UNCHANGED fs

\* await fsp.mkdir(tempDir, { recursive: true }) of a strategy: tempDir is the
\* strategy's sub-directory, its parents are created with it
StrategyMkdir(c, s) ==
  /\ phase[c][s] = "mkdir"
  /\ fs' = [fs EXCEPT ![tempDir(c)].exists = TRUE, ![tempDir(c)].sub = @ \cup {SubPath(s)}]
  /\ Advance(c, s, IF s = "http" THEN "locate" ELSE "shell")
  /\ UNCHANGED <<srcFailed, srcHung, tarballUrl>>
  /\ StrategyFrame

\* downloadWithHttp: the promises of getTarballUrlFromRegistry/Yarn/Tencent
\* given to the inner Promise.any, once src has settled as st
SourceStatus(c, src, st) ==
  [x \in Sources |-> IF x = src THEN st
                     ELSE IF x \in srcFailed[c] THEN "rejected"
                     ELSE "pending"]

\* downloadWithHttp: one of getTarballUrlFromRegistry/Yarn/Tencent rejects
HttpSourceRejects(c, src) ==
  /\ phase[c]["http"] = "locate"
  /\ src \notin srcFailed[c] \cup srcHung[c]
  /\ IF PromiseAny(SourceStatus(c, src, "rejected")) = "rejected"
       THEN Settle(c, "http", "failed", EmptyPath, "Sources")
       ELSE /\ srcFailed' = [srcFailed EXCEPT ![c] = @ \cup {src}]
            /\ UNCHANGED <<pc, tgzPath, stepError, retries, caught, phase, spath, serr, invoked,
                           srcHung, tarballUrl>>
  /\ UNCHANGED fs
  /\ StrategyFrame

\* downloadWithHttp: the request of one of getTarballUrlFrom* fails before a
\* response arrives.  https.get has no 'error' listener on the request and
\* reject is wired to the response only, so the promise never settles.
HttpSourceHangs(c, src) ==
  /\ phase[c]["http"] = "locate"
  /\ src \notin srcFailed[c] \cup srcHung[c]
  /\ srcHung' = [srcHung EXCEPT ![c] = @ \cup {src}]
  /\ UNCHANGED <<pc, tgzPath, stepError, retries, caught, phase, spath, serr, invoked, srcFailed,
                 tarballUrl, fs>>
  /\ StrategyFrame

\* downloadWithHttp: the first registry fulfils, the download starts
HttpSourceFulfils(c, src) ==
  /\ phase[c]["http"] = "locate"
  /\ src \notin srcFailed[c] \cup srcHung[c]
  /\ PromiseAny(SourceStatus(c, src, "fulfilled")) = "fulfilled"
  /\ IF SubPath("http") \in fs[tempDir(c)].sub
       THEN /\ tarballUrl' = [tarballUrl EXCEPT ![c] = src]
            /\ srcFailed' = [srcFailed EXCEPT ![c] = {}]
            /\ srcHung' = [srcHung EXCEPT ![c] = {}]
       ELSE TRUE
  /\ CreateWriteStream(c, "http")
  /\ StrategyFrame

\* downloadWithNpmHttp: jsShell(`npm view ${name} dist.tarball`)
NpmView(c) ==
  /\ phase[c]["npm"] = "shell"
  /\ \/ /\ Settle(c, "npm", "failed", EmptyPath, "Status")   \* status !== 0
        /\ UNCHANGED fs
     \/ /\ Settle(c, "npm", "ok", EmptyPath, "none")         \* if (!tarballUrl) return ''
        /\ UNCHANGED fs
     \/ /\ CreateWriteStream(c, "npm")
        /\ IF SubPath("npm") \in fs[tempDir(c)].sub THEN UNCHANGED <<srcFailed, srcHung, tarballUrl>> ELSE TRUE
  /\ StrategyFrame

\* the response is piped into the file: 'finish' resolves with tgzPath, an
\* 'error' of the request rejects.  A file unlinked meanwhile stays unlinked.
Download(c, s) ==
  /\ s \in {"http", "npm"}
  /\ phase[c][s] = "download"
  /\ \/ /\ fs' = [fs EXCEPT
                   ![tempDir(c)].tgz[SubPath(s)] = IF @ = "partial" THEN "complete" ELSE @]
        /\ Settle(c, s, "ok", TgzPath(tempDir(c), SubPath(s)), "none")
     \/ /\ Settle(c, s, "failed", EmptyPath, "Download")
        /\ UNCHANGED fs
  /\ StrategyFrame

\* downloadWitchPack: jsShell(`npm pack ${name} --pack-destination ${tempDir}`)
NpmPack(c) ==
  /\ phase[c]["pack"] = "shell"
  /\ \/ /\ Settle(c, "pack", "failed", EmptyPath, "Status")  \* status !== 0
        /\ UNCHANGED fs
     \/ /\ SubPath("pack") \in fs[tempDir(c)].sub
        /\ fs' = [fs EXCEPT ![tempDir(c)].tgz[SubPath("pack")] = "complete"]
        /\ Advance(c, "pack", "readdir")
        /\ UNCHANGED <<srcFailed, srcHung, tarballUrl>>
  /\ StrategyFrame

\* downloadWitchPack: fsp.readdir(tempDir), filter, path.join(tempDir, tarballPath)
PackReaddir(c) ==
  /\ phase[c]["pack"] = "readdir"
  /\ IF /\ SubPath("pack") \in fs[tempDir(c)].sub
        /\ fs[tempDir(c)].tgz[SubPath("pack")] = "complete"
       THEN Settle(c, "pack", "ok", TgzPath(tempDir(c), SubPath("pack")), "none")
       ELSE Settle(c, "pack", "failed", EmptyPath, "NoFile")
  /\ UNCHANGED fs
  /\ StrategyFrame

\* ------------------------------------------------ after the race has a value
OrchestratorFrame ==
  /\ UNCHANGED <<name, retry, retries, caught, phase, spath, serr, invoked, srcFailed, srcHung, tarballUrl,
                 tgzPath, VITEST, retryVars, resolveVars>>
  /\ Budget

Return(c) ==
  /\ pc' = [pc EXCEPT ![c] = "done"]
  /\ outcome' = [outcome EXCEPT ![c] = [kind |-> "returned", error |-> NoError]]

\* await tar.x({ file: tgzPath, cwd: tempDir })
Extract(c) ==
  /\ pc[c] = "extract"
  /\ \/ /\ tgzPath[c] # EmptyPath
        /\ fs[tgzPath[c][1]].tgz[tgzPath[c][2]] = "complete"
        /\ fs[tempDir(c)].exists
        /\ fs' = [fs EXCEPT ![tempDir(c)].package = TRUE]
        /\ pc' = [pc EXCEPT ![c] = NextStep("extract")]
        /\ UNCHANGED stepError
     \/ /\ Throw(c, Err("extract"))
        /\ UNCHANGED fs
  /\ UNCHANGED <<mainFileContent, cleanup, outcome, pkgJson>>
  /\ OrchestratorFrame

\* JSON.parse(await fsp.readFile(packageJsonPath, 'utf-8')) and the choice of mainFile
ReadManifest(c) ==
  /\ pc[c] = "readManifest"
  /\ \/ /\ fs[tempDir(c)].package
        /\ pc' = [pc EXCEPT ![c] = NextStep("readManifest")]
        /\ UNCHANGED stepError
     \/ Throw(c, Err("manifest"))
  /\ UNCHANGED <<mainFileContent, cleanup, outcome, fs, pkgJson>>
  /\ OrchestratorFrame

\* const mainFileContent = await fsp.readFile(mainFilePath, 'utf-8')
ReadEntry(c) ==
  /\ pc[c] = "readEntry"
  /\ \/ /\ fs[tempDir(c)].package
        /\ mainFileContent' = [mainFileContent EXCEPT ![c] = TRUE]
        /\ pc' = [pc EXCEPT ![c] = NextStep("readEntry")]
        /\ UNCHANGED stepError
     \/ /\ Throw(c, Err("entry"))
        /\ UNCHANGED mainFileContent
  /\ UNCHANGED <<cleanup, outcome, fs, pkgJson>>
  /\ OrchestratorFrame

\* await fsp.rm(tempDir, { recursive: true, force: true }) inside the try block
RmTempDir(c) ==
  /\ pc[c] = "rm"
  /\ \/ /\ fs' = [fs EXCEPT ![tempDir(c)] = EmptyDir]
        /\ IF VITEST
             THEN /\ pc' = [pc EXCEPT ![c] = "rmManifest"]
                  /\ UNCHANGED outcome
             ELSE Return(c)
        /\ UNCHANGED stepError
     \/ /\ Throw(c, Err("rm"))
        /\ UNCHANGED <<fs, outcome>>
  /\ UNCHANGED <<mainFileContent, cleanup, pkgJson>>
  /\ OrchestratorFrame

\* if (process.env.VITEST) await fsp.rm(distPackageJsonPath, ...)
RmManifest(c) ==
  /\ pc[c] = "rmManifest"
  /\ \/ /\ pkgJson' = "absent"
        /\ Return(c)
        /\ UNCHANGED stepError
     \/ /\ Throw(c, Err("rmManifest"))
        /\ UNCHANGED <<pkgJson, outcome>>
  /\ UNCHANGED <<mainFileContent, cleanup, fs>>
  /\ OrchestratorFrame

\* catch (error) { await fsp.rm(tempDir, ...); throw error }
Catch(c) ==
  /\ pc[c] = "catch"
  /\ \/ /\ fs' = [fs EXCEPT ![tempDir(c)] = EmptyDir]
        /\ cleanup' = [cleanup EXCEPT ![c] = "ok"]
        /\ outcome' = [outcome EXCEPT ![c] = [kind |-> "thrown", error |-> stepError[c]]]
     \/ /\ UNCHANGED fs
        /\ cleanup' = [cleanup EXCEPT ![c] = "failed"]
        /\ outcome' = [outcome EXCEPT ![c] = [kind |-> "thrown", error |-> Err("cleanup")]]
  /\ pc' = [pc EXCEPT ![c] = "done"]
  /\ UNCHANGED <<stepError, mainFileContent, pkgJson>>
  /\ OrchestratorFrame

\* ------------------------------------------------------------ specifications
Step(c) ==
  \/ Call(c)
  \/ RequestAuth(c)
  \/ WriteManifest(c)
  \/ Mkdir(c)
  \/ \E s \in Strategies : StrategyMkdir(c, s)
  \/ \E src \in Sources : HttpSourceRejects(c, src)
  \/ \E src \in Sources : HttpSourceHangs(c, src)
  \/ \E src \in Sources : HttpSourceFulfils(c, src)
  \/ NpmView(c)
  \/ \E s \in Strategies : Download(c, s)
  \/ NpmPack(c)
  \/ PackReaddir(c)
  \/ Extract(c)
  \/ ReadManifest(c)
  \/ ReadEntry(c)
  \/ RmTempDir(c)
  \/ RmManifest(c)
  \/ Catch(c)

\* one call of fetchAndExtractPackage
Next == \E c \in {1} : Step(c)
Spec == Init /\ [][Next]_vars

\* NumCalls calls in flight in one process, followed for MaxSteps steps
ConcNext == \E c \in Calls : Step(c)
ConcInit == InitVars /\ steps = 0
ConcSpec == ConcInit /\ [][ConcNext]_vars

\* retryAsync alone, on a function that fails its first rK invocations
RetryInit ==
  /\ MainIdle
  /\ pkgJson = "absent"
  /\ VITEST = FALSE
  /\ RetryInitVars
  /\ ResolveIdle
  /\ steps = -1
RetrySpec == RetryInit /\ [][RetryNext]_vars

\* entry resolution alone, on every manifest and tag of the bounded sets
ResolveInit ==
  /\ MainIdle
  /\ pkgJson = "absent"
  /\ VITEST = FALSE
  /\ RetryIdle
  /\ ResolveInitVars
  /\ steps = -1
ResolveNext == Resolve
ResolveSpec == ResolveInit /\ [][ResolveNext]_vars

\* ------------------------------------------------------------------ claims
Min(a, b) == IF a < b THEN a ELSE b
Pending(c, s) == phase[c][s] \notin {"idle", "ok", "failed"}
InFlight(c) == pc[c] \notin {"idle", "done"}
Succeeds(c, s) == phase[c][s] # "ok" /\ phase'[c][s] = "ok"
\* a race attempt of call c rejects in this step
RaceRejects(c) ==
  /\ pc[c] = "race"
  /\ \/ Len(caught'[c]) = Len(caught[c]) + 1
     \/ pc'[c] = "catch"
\* the AggregateError of the attempt that rejects in this step
Rejection(c) == IF pc'[c] = "catch" THEN stepError'[c] ELSE caught'[c][Len(caught'[c])]
\* a race attempt of call c starts in this step
RaceStarts(c) ==
  \/ pc[c] = "mkdir" /\ pc'[c] = "race"
  \/ Len(caught'[c]) = Len(caught[c]) + 1

\* C1: once a call has returned or thrown, its working directory does not
\* exist on disk, whatever the strategies did and whichever step failed, also
\* with losing strategies still running.
C1_WorkDirRemovedAfterCall ==
  \A c \in Calls : pc[c] = "done" => ~fs[tempDir(c)].exists

\* C2: every attempt of the race starts all strategies; while the race is
\* pending no strategy has succeeded; and the step in which a strategy
\* succeeds completes the race with that strategy's value, whatever the other
\* strategies have done (failed earlier, or still running).
C2_FirstSuccessWins ==
  /\ [](\A c \in Calls : pc[c] = "race" => \A s \in Strategies : phase[c][s] # "ok")
  /\ [][\A c \in Calls :
          /\ RaceStarts(c) => \A s \in Strategies : phase'[c][s] = "mkdir"
          /\ \A s \in Strategies :
               (pc[c] = "race" /\ Succeeds(c, s))
                 => (pc'[c] = "extract" /\ tgzPath'[c] = spath'[c][s])
          /\ (pc[c] = "race" /\ pc'[c] = "extract")
                 => \E s \in Strategies : Succeeds(c, s) /\ tgzPath'[c] = spath'[c][s]]_vars

\* the race was won while one strategy had failed and another was still running
C2_Witness ==
  \E c \in Calls : \E s, t, u \in Strategies :
    /\ pc[c] = "extract"
    /\ phase[c][s] = "ok" /\ tgzPath[c] = spath[c][s] /\ tgzPath[c] # EmptyPath
    /\ phase[c][t] = "failed"
    /\ Pending(c, u)

\* C3: a race attempt rejects exactly when its last pending strategy rejects
\* with all the others rejected before: never with a strategy pending or
\* fulfilled, and never later; the AggregateError holds the reasons of all
\* strategies, in the order of the strategies.
C3_RaceFailsIffAllFail ==
  /\ [](\A c \in Calls : pc[c] = "race" => \E s \in Strategies : Pending(c, s))
  /\ [][\A c \in Calls :
          RaceRejects(c) =>
            \E i \in 1..Len(StrategyOrder) :
              /\ Pending(c, StrategyOrder[i])
              /\ Rejection(c).kind = "AggregateError"
              /\ Len(Rejection(c).errors) = Len(StrategyOrder)
              /\ Rejection(c).errors[i] # "none"
              /\ \A j \in 1..Len(StrategyOrder) :
                   j # i => /\ phase[c][StrategyOrder[j]] = "failed"
                            /\ Rejection(c).errors[j] = serr[c][StrategyOrder[j]]]_vars

\* the race has rejected with the reasons of the three strategies
C3_Witness ==
  \E c \in Calls :
    /\ pc[c] = "catch"
    /\ stepError[c] = AggregateError(<<"Sources", "Download", "Status">>)
    /\ \A s \in Strategies : phase[c][s] = "failed"

\* C4: for fn failing its first rK invocations, retryAsync(fn, rN) returns
\* fn's value exactly when rK <= rN and throws otherwise, and has invoked fn
\* Min(rK, rN) + 1 times when it ends, never more.
C4_RetryInvocations ==
  /\ rCalls <= Min(rK, rN) + 1
  /\ rState = "calling" => rCalls <= Min(rK, rN)
  /\ rState = "returned" => rK <= rN /\ rCalls = rK + 1 /\ rResult = OpValue
  /\ rState = "thrown" => rK > rN /\ rCalls = rN + 1

\* retryAsync(fn, 2) has returned the value of an fn that failed twice
C4_Witness == rState = "returned" /\ rN = 2 /\ rK = 2 /\ rCalls = 3

\* C5: the error retryAsync(fn, rN) throws is the error of the last, rN+1-th,
\* invocation of fn, as fn rejected with it.
C5_RetryThrowsLastError ==
  rState = "thrown" =>
    /\ Len(rErrors) = rN + 1
    /\ rResult = rErrors[rN + 1]
    /\ rResult[1] = rN + 1

\* retryAsync has thrown after retries whose errors differ from the last one
C5_Witness ==
  /\ rState = "thrown"
  /\ rN >= 2
  /\ rErrors[1][2] # rErrors[Len(rErrors)][2]

\* C6: attempt number Len(caught) + 1 of the race never exceeds retry + 1; an
\* attempt after the first starts in the step in which the last pending
\* strategy of the previous attempt rejects, all others having rejected, and
\* starts every strategy again; the rejection of the race reaches the catch
\* block after exactly retry + 1 attempts.
C6_RaceRetriedAsUnit ==
  /\ [](\A c \in Calls : Len(caught[c]) <= retry[c])
  /\ [][\A c \in Calls :
          /\ Len(caught'[c]) = Len(caught[c]) + 1 =>
               /\ pc[c] = "race" /\ pc'[c] = "race"
               /\ \A s \in Strategies : phase[c][s] # "ok"
               /\ Cardinality({s \in Strategies : Pending(c, s)}) = 1
               /\ \A s \in Strategies : phase'[c][s] = "mkdir"
          /\ (pc[c] = "race" /\ pc'[c] = "catch") => Len(caught[c]) = retry[c]]_vars

\* the second attempt of a race with retry 1 is running, after a first attempt
\* in which every strategy failed
C6_Witness ==
  \E c \in Calls :
    /\ pc[c] = "race" /\ retry[c] = 1 /\ Len(caught[c]) = 1
    /\ \E s, t \in Strategies : phase[c][s] = "failed" /\ phase[c][t] = "download"

\* C7: when a step fails and the removal of the working directory in the
\* catch block fails too, the caller receives the error of the failed step.
C7_OriginalErrorSurvivesCleanup ==
  \A c \in Calls :
    (pc[c] = "done" /\ cleanup[c] = "failed") => outcome[c].error = stepError[c]

\* C8: when the entry file has been read, the call returns its content even
\* if the removal of the working directory fails.
C8_RemovalErrorSwallowed ==
  \A c \in Calls :
    (pc[c] = "done" /\ mainFileContent[c] /\ stepError[c].kind # "rmManifest")
      => outcome[c].kind = "returned"

\* C9: a strategy fulfils only with the path of an archive file, so the race
\* is never won by an empty path.
C9_StrategyFulfilsWithArchive ==
  \A c \in Calls :
    /\ \A s \in Strategies : phase[c][s] = "ok" => spath[c][s] # EmptyPath
    /\ pc[c] = "extract" => tgzPath[c] # EmptyPath

\* C10: two calls in flight at the same time never share a working directory.
C10_SeparateWorkDirs ==
  \A c1, c2 \in Calls :
    (c1 # c2 /\ InFlight(c1) /\ InFlight(c2)) => tempDir(c1) # tempDir(c2)

\* the resolution has run, and has a result
Resolved == mainFile.some
TagRequested == dist.some /\ Len(dist.s) > 0
\* main, or "index.js" when main is absent or empty
Default ==
  IF packageJson.main.some /\ Len(packageJson.main.s) > 0
    THEN packageJson.main.s
    ELSE IndexJs
\* the exports entries in the order of the manifest's text, and in the order
\* the loop visits them
Inserted == packageJson.exports.list
Visited == ForIn(packageJson.exports.list)
\* the manifest is one of the data model: import and require are absent or
\* strings
StringFields ==
  \A i \in 1..Len(Inserted) :
    /\ Inserted[i][2].import.some => Inserted[i][2].import.str
    /\ Inserted[i][2].require.some => Inserted[i][2].require.str
\* v is a string that contains the tag
Contains(v) == v.some /\ v.str /\ Includes(v.s, dist.s)
\* the import or require of entry i of list contains the tag
Matches(list, i) == Contains(list[i][2].import) \/ Contains(list[i][2].require)
\* the value entry i of list gives: its import if that contains the tag,
\* otherwise its require
Preferred(list, i) ==
  IF Contains(list[i][2].import) THEN list[i][2].import.s ELSE list[i][2].require.s
\* the resolved entry is the value of the first matching entry of list
FirstMatchOf(list) ==
  \E i \in 1..Len(list) :
    /\ Matches(list, i)
    /\ \A j \in 1..(i - 1) : ~Matches(list, j)
    /\ mainFile.s = Preferred(list, i)

\* C11: with no tag requested (dist absent or empty) the resolved entry is
\* main, or "index.js" when main is absent or empty, whatever exports holds.
C11_NoTagGivesDefault ==
  /\ ~TagRequested => resolveError = "none"
  /\ (Resolved /\ ~TagRequested) => mainFile.s = Default

\* an empty tag and an empty main resolve to index.js although exports has
\* an import
C11_Witness ==
  /\ Resolved
  /\ dist = Some(<<>>)
  /\ packageJson.main = Some(<<>>)
  /\ \E i \in 1..Len(Inserted) : Inserted[i][2].import.some
  /\ mainFile.s = IndexJs

\* C12: with a tag requested that the default entry contains, the resolved
\* entry is the default entry, also when exports has matching entries.
C12_DefaultWithTagKept ==
  /\ (TagRequested /\ Includes(Default, dist.s)) => resolveError = "none"
  /\ (Resolved /\ TagRequested /\ Includes(Default, dist.s)) => mainFile.s = Default

\* main contains the tag, an exports entry matches too, and main is returned
C12_Witness ==
  /\ Resolved /\ TagRequested
  /\ packageJson.main.some /\ Includes(packageJson.main.s, dist.s)
  /\ \E i \in 1..Len(Inserted) : Matches(Inserted, i)
  /\ mainFile.s = packageJson.main.s

C14_NoMatchGivesDefault ==
  /\ resolveError = "none"
  /\ (/\ Resolved /\ TagRequested /\ ~Includes(Default, dist.s)
      /\ \A i \in 1..Len(Inserted) : ~Matches(Inserted, i))
       => mainFile.s = Default

\* C15: a call ends with exactly one outcome, returned or thrown, and a call
\* in flight never comes to a state from which it cannot go on: as long as it
\* has not ended, it or one of its strategies has a step to take.
C15_FetchAlwaysEnds ==
  \A c \in Calls :
    /\ pc[c] = "done" <=> outcome[c].kind \in {"returned", "thrown"}
    /\ InFlight(c) => ENABLED Step(c)

\* the race of call c has produced its value
PastRace(c) == pc[c] \in {"extract", "readManifest", "readEntry", "rm", "rmManifest"}
\* a strategy of call c is invoked in this step
Invoked(c, s) == phase[c][s] # "mkdir" /\ phase'[c][s] = "mkdir"

\* C16: once the race has produced an archive location the call starts no
\* race attempt and invokes no strategy, whatever fails afterwards; and when
\* the extraction, the manifest read or the entry read fails, the call ends
\* with that failure as its error.
C16_LateFailureNotRetried ==
  /\ [](\A c \in Calls :
         (pc[c] = "done" /\ stepError[c].kind \in {"extract", "manifest", "entry"})
           => outcome[c] = [kind |-> "thrown", error |-> stepError[c]])
  /\ [][\A c \in Calls :
          (PastRace(c) \/ stepError[c].kind \in {"extract", "manifest", "entry"}) =>
            /\ ~RaceStarts(c)
            /\ \A s \in Strategies : ~Invoked(c, s)
            /\ pc'[c] # "race"]_vars

\* call c has left the extraction step behind, or will never reach it
PastExtract(c) ==
  pc[c] \in {"readManifest", "readEntry", "rm", "rmManifest", "catch", "done"}

\* C17: a call enters the extraction step only from the race and never
\* comes back to it once it has left it; and the archive location it extracts
\* is set in the step that ends the race and never changes afterwards, also
\* when further strategies succeed and when the race was retried.
C17_ExtractsAtMostOnce ==
  [][\A c \in Calls :
       /\ (pc'[c] = "extract" /\ pc[c] # "extract") => pc[c] = "race"
       /\ PastExtract(c) => PastExtract(c)'
       /\ tgzPath'[c] # tgzPath[c] => (pc[c] = "race" /\ pc'[c] = "extract")]_vars

\* after a retried race two strategies have succeeded with different
\* archives, and the call has extracted the one the race returned
C17_Witness ==
  \E c \in Calls : \E s, t \in Strategies :
    /\ pc[c] = "readManifest" /\ fs[tempDir(c)].package
    /\ retries[c] < retry[c]
    /\ phase[c][s] = "ok" /\ phase[c][t] = "ok"
    /\ spath[c][s] # spath[c][t] /\ spath[c][t] # EmptyPath
    /\ tgzPath[c] = spath[c][s]

\* C18: the package.json next to the module changes in two ways only: the
\* writeManifest step creates the placeholder when no file is there, and the
\* rmManifest step removes the file, in test mode, after the entry file was
\* read, as the last step of a call that returns.  A call that throws leaves
\* the file as it is.
C18_PlaceholderLifecycle ==
  [][/\ pkgJson' # pkgJson =>
          \E c \in Calls :
            \/ /\ pc[c] = "writeManifest" /\ pc'[c] = "mkdir"
               /\ pkgJson = "absent" /\ pkgJson' = "placeholder"
            \/ /\ pc[c] = "rmManifest" /\ pc'[c] = "done"
               /\ VITEST /\ mainFileContent[c]
               /\ outcome'[c].kind = "returned"
               /\ pkgJson' = "absent"
     /\ \A c \in Calls :
          (pc[c] # "done" /\ pc'[c] = "done" /\ outcome'[c].kind = "thrown")
            => pkgJson' = pkgJson]_vars

\* in test mode a call has created the placeholder and has thrown: the
\* placeholder is still there
C18_Witness ==
  \E c \in Calls :
    /\ VITEST /\ pkgJson = "placeholder"
    /\ pc[c] = "done" /\ outcome[c].kind = "thrown"
    /\ stepError[c].kind = "extract"

\* the order of the orchestrator's steps: each step is followed by the next
\* one or, when it fails, by the catch block
InOrder ==
  {<<"idle", "requestAuth">>, <<"requestAuth", "writeManifest">>,
   <<"writeManifest", "mkdir">>, <<"mkdir", "race">>, <<"race", "extract">>,
   <<"extract", "readManifest">>, <<"readManifest", "readEntry">>,
   <<"readEntry", "rm">>, <<"rm", "rmManifest">>, <<"rm", "done">>,
   <<"rmManifest", "done">>, <<"catch", "done">>}
    \cup {<<p, "catch">> : p \in {"requestAuth", "writeManifest", "mkdir", "race",
                                  "extract", "readManifest", "readEntry", "rm",
                                  "rmManifest"}}

\* C19: the steps of a call follow one another in program order.  Strategies
\* are invoked only by the step that has created the working directory or by
\* a retry of the race; the extraction starts only with the value of a
\* strategy that succeeded; the manifest is read only after the extraction
\* produced the package; the entry is read only after the manifest step; the
\* working directory is removed only after the entry was read or a step has
\* failed; and after the removal the call takes no step that reads from it.
C19_StepsInOrder ==
  /\ [](\A c \in Calls :
         /\ pc[c] = "extract" =>
              \E s \in Strategies : phase[c][s] = "ok" /\ tgzPath[c] = spath[c][s]
         /\ pc[c] \in {"idle", "requestAuth", "writeManifest", "mkdir"} =>
              \A s \in Strategies : phase[c][s] = "idle"
         /\ pc[c] \in {"rm", "rmManifest"} => mainFileContent[c]
         /\ pc[c] = "catch" => stepError[c] # NoError)
  /\ [][\A c \in Calls :
          /\ pc'[c] # pc[c] => <<pc[c], pc'[c]>> \in InOrder
          /\ \A s \in Strategies :
               Invoked(c, s) =>
                 \/ pc[c] = "mkdir" /\ pc'[c] = "race" /\ fs'[tempDir(c)].exists
                 \/ pc[c] = "race" /\ pc'[c] = "race"
          /\ (pc[c] = "extract" /\ pc'[c] = "readManifest") => fs'[tempDir(c)].package
          /\ (pc[c] = "readEntry" /\ pc'[c] = "rm") => mainFileContent'[c]
          /\ (InFlight(c) /\ fs[tempDir(c)].exists /\ ~fs'[tempDir(c)].exists)
               => pc[c] \in {"rm", "catch"}
          /\ pc[c] \in {"rmManifest", "catch", "done"}
               => pc'[c] \in {"rmManifest", "catch", "done"}]_vars

\* a call has gone through every step and has returned, its working
\* directory removed
C19_Witness ==
  \E c \in Calls :
    /\ pc[c] = "done" /\ outcome[c].kind = "returned"
    /\ mainFileContent[c] /\ VITEST
    /\ tgzPath[c] # EmptyPath
    /\ ~fs[tempDir(c)].exists

\* C20: the archive file in the sub-directory of a strategy is written only
\* by steps of that strategy (and removed with the working directory by the
\* call itself); and from the end of the race to the extraction the archive
\* the race returned stays complete, whatever the other strategies do.
C20_DisjointSubPaths ==
  /\ [](\A c \in Calls :
         (pc[c] = "extract" /\ tgzPath[c] # EmptyPath)
           => fs[tgzPath[c][1]].tgz[tgzPath[c][2]] = "complete")
  /\ [][\A c \in Calls : \A s \in Strategies :
          (InFlight(c) /\ fs'[tempDir(c)].tgz[SubPath(s)] # fs[tempDir(c)].tgz[SubPath(s)])
            => \/ phase'[c][s] # phase[c][s]
               \/ pc[c] \in {"rm", "catch"} /\ fs'[tempDir(c)] = EmptyDir]_vars

\* the race was won with the archive of downloadWithHttp while
\* downloadWithNpmHttp is still writing its own file
C20_Witness ==
  \E c \in Calls :
    /\ pc[c] = "extract"
    /\ tgzPath[c] = TgzPath(tempDir(c), "http")
    /\ fs[tempDir(c)].tgz["http"] = "complete"
    /\ phase[c]["npm"] = "download"
    /\ fs[tempDir(c)].tgz["npm"] = "partial"

\* the race of call c has been won: the call has gone on with its value
Won(c) ==
  /\ pc[c] \in {"extract", "readManifest", "readEntry", "rm", "rmManifest", "catch", "done"}
  /\ \E s \in Strategies : phase[c][s] = "ok"
\* strategy s of call c settles in this step
Settles(c, s) == Pending(c, s) /\ phase'[c][s] \in {"ok", "failed"}

\* C21: a strategy that settles after the race has been won, with a value or
\* with an error, changes nothing of the call: not the archive location, not
\* its position (no retry, no second extraction), not the error it has caught
\* and not its outcome; and no strategy is invoked.
C21_LoserDiscarded ==
  [][\A c \in Calls : \A s \in Strategies :
       (Won(c) /\ Settles(c, s)) =>
         /\ tgzPath'[c] = tgzPath[c]
         /\ pc'[c] = pc[c]
         /\ retries'[c] = retries[c] /\ caught'[c] = caught[c]
         /\ stepError'[c] = stepError[c]
         /\ outcome'[c] = outcome[c]
         /\ mainFileContent'[c] = mainFileContent[c]
         /\ \A t \in Strategies : ~Invoked(c, t)]_vars

\* a call has returned the entry of the archive the race returned; of the
\* two losing strategies one has succeeded with another archive and one has
\* failed
C21_Witness ==
  \E c \in Calls : \E s, t, u \in Strategies :
    /\ pc[c] = "done" /\ outcome[c].kind = "returned"
    /\ phase[c][s] = "ok" /\ tgzPath[c] = spath[c][s]
    /\ phase[c][t] = "ok" /\ spath[c][t] # tgzPath[c] /\ spath[c][t] # EmptyPath
    /\ phase[c][u] = "failed"

Scanned ==
  /\ Resolved /\ TagRequested /\ ~Includes(Default, dist.s)
  /\ packageJson.exports.some /\ StringFields
\* v is the require value of an exports entry
IsRequire(v) ==
  \E i \in 1..Len(Visited) : Visited[i][2].require.str /\ Visited[i][2].require.s = v

\* C23, as stated: if the import of some entry contains the tag, the result
\* is the import of the first such entry, whatever the require values of the
\* entries before it; a require is returned only when no import contains the
\* tag.
C23_ImportBeforeAnyRequire ==
  \A i \in 1..Len(Visited) :
    (/\ Scanned
     /\ Contains(Visited[i][2].import)
     /\ \A j \in 1..(i - 1) : ~Contains(Visited[j][2].import))
      => mainFile.s = Visited[i][2].import.s

\* C23, amended: import comes before require within one entry only.  A
\* require value is returned only if neither its own entry nor an entry
\* visited before it has an import containing the tag; the first entry whose
\* require contains the tag wins over every later entry if no import up to
\* it contains the tag; and the import of the first entry whose import
\* contains the tag is the result only if no earlier require contains it.
C23_ImportBeforeRequireWithinEntry ==
  /\ (Scanned /\ IsRequire(mainFile.s)) =>
       \E i \in 1..Len(Visited) :
         /\ Contains(Visited[i][2].require)
         /\ mainFile.s = Visited[i][2].require.s
         /\ \A j \in 1..i : ~Contains(Visited[j][2].import)
  /\ \A i \in 1..Len(Visited) :
       (/\ Scanned
        /\ Contains(Visited[i][2].require)
        /\ \A j \in 1..i : ~Contains(Visited[j][2].import)
        /\ \A j \in 1..(i - 1) : ~Contains(Visited[j][2].require))
         => mainFile.s = Visited[i][2].require.s
  /\ \A i \in 1..Len(Visited) :
       (/\ Scanned
        /\ Contains(Visited[i][2].import)
        /\ \A j \in 1..(i - 1) : ~Matches(Visited, j))
         => mainFile.s = Visited[i][2].import.s

\* the first entry visited has a require containing the tag, the second an
\* import containing it, and the require of the first is the result
C23_Witness ==
  /\ Scanned
  /\ Len(Visited) = 2
  /\ ~Contains(Visited[1][2].import) /\ Contains(Visited[1][2].require)
  /\ Contains(Visited[2][2].import)
  /\ mainFile.s = Visited[1][2].require.s
  /\ mainFile.s # Visited[2][2].import.s

\* downloadWithHttp of call c awaits the race of its sub-sources
HttpLocates(c) == phase[c]["http"] = "locate"
\* the reason downloadWithHttp rejects with in this step, "none" if it does not
HttpRejection(c) ==
  IF phase'[c]["http"] = "failed" THEN serr'[c]["http"]
  ELSE IF RaceRejects(c) THEN Rejection(c).errors[1]
  ELSE "none"

\* C24: downloadWithHttp starts the download in the step in which a
\* sub-source fulfils, with the URL of that sub-source, whatever the state of
\* the other sub-sources; it rejects for its sub-sources in the step in which
\* the last of them rejects, all others having rejected, and is never left
\* locating with every sub-source rejected.
C24_SubSourcesFirstSuccess ==
  /\ [](\A c \in Calls :
         /\ HttpLocates(c) => (srcFailed[c] # Sources /\ tarballUrl[c] = NoUrl)
         /\ phase[c]["http"] = "download" => tarballUrl[c] \in Sources)
  /\ [][\A c \in Calls :
          /\ (HttpLocates(c) /\ phase'[c]["http"] = "download")
               => tarballUrl'[c] \in Sources \ (srcFailed[c] \cup srcHung[c])
          /\ (HttpLocates(c) /\ HttpRejection(c) = "Sources")
               => /\ Cardinality(srcFailed[c]) = Cardinality(Sources) - 1
                  /\ srcFailed[c] \cup srcHung[c] # Sources]_vars

\* in the first attempt of the race downloadWithHttp rejected for its
\* sub-sources; in the second it downloads from the URL yarn delivered
C24_Witness ==
  \E c \in Calls :
    /\ pc[c] = "race" /\ Len(caught[c]) = 1
    /\ caught[c][1].errors[1] = "Sources"
    /\ phase[c]["http"] = "download" /\ tarballUrl[c] = "yarn"

\* C25: a package.json that was there before the call (not the placeholder
\* the call wrote) stays as it is in every step of the call, and the only
\* file a step removes is the placeholder.
C25_ExistingManifestKept ==
  [][/\ pkgJson = "user" => pkgJson' = "user"
     /\ (pkgJson # "absent" /\ pkgJson' = "absent") => pkgJson = "placeholder"]_vars

\* v is an import or require value of the exports table that contains the tag
IsMatch(v) ==
  \E i \in 1..Len(Inserted) :
    \/ Contains(Inserted[i][2].import) /\ Inserted[i][2].import.s = v
    \/ Contains(Inserted[i][2].require) /\ Inserted[i][2].require.s = v

\* C26: with a tag requested, the resolved entry is the default entry or an
\* import or require value of the exports table that contains the tag; it is
\* an entry without the tag only when the default entry does not contain the
\* tag and no import or require value of the table does.
C26_ResolvedIsDefaultOrMatch ==
  (Resolved /\ TagRequested) =>
    /\ mainFile.s = Default \/ IsMatch(mainFile.s)
    /\ ~Includes(mainFile.s, dist.s) =>
         /\ ~Includes(Default, dist.s)
         /\ \A i \in 1..Len(Inserted) : ~Matches(Inserted, i)

\* the default entry does not contain the tag, the first entry of the table
\* has an import without the tag, and the import of a later entry is the
\* result
C26_Witness ==
  /\ Resolved /\ TagRequested /\ ~Includes(Default, dist.s)
  /\ Len(Inserted) = 2
  /\ Inserted[1][2].import.str /\ ~Contains(Inserted[1][2].import)
  /\ ~Contains(Inserted[1][2].require)
  /\ Contains(Visited[2][2].import) /\ mainFile.s = Visited[2][2].import.s
====
